---- MODULE Spec2Model ----
(***************************************************************************)
(* Model of the VWC Averaging Tool of the STARWARS ArcGIS Pro toolbox      *)
(* (src/starwars_tool.py): the parameter list built by                     *)
(* AveragingTool.getParameterInfo and the enable/disable callback          *)
(* AveragingTool.updateParameters that the host runs after a parameter     *)
(* changes.                                                                *)
(*                                                                         *)
(* A parameter slot is a record [name, datatype, value, enabled].  A name  *)
(* f"station_{i}" is the pair <<"station", i>>; the two names without an   *)
(* index carry index 0.  Python values are strings here: "None", "False",  *)
(* "True" and "a" (some layer or path the user entered).  Python list      *)
(* positions are 0-based; At turns one into a position of a TLA+ sequence. *)
(***************************************************************************)
EXTENDS Integers, Sequences, FiniteSets

VARIABLES params,   \* the parameter list the host holds and hands to the callback
          pre,      \* the list as it was when the latest updateParameters call began
          phase,    \* "new": tool constructed; "idle": list built; "changed": a value was edited
          calls,    \* updateParameters calls since the latest edit
          outcome,  \* how the latest call ended: "none", "returned", "IndexError"
          iters,    \* loop iterations the latest call completed
          edits     \* edits made so far

vars == <<params, pre, phase, calls, outcome, iters, edits>>

\* ---------------------------------------------------------------- bounds
MaxEdits == 2
MaxCalls == 2
MaxExtra == 2

\* ------------------------------------------------------------ the values
None == "None"

\* Python truthiness of a parameter value (line 199: `if checkbox.value:`).
Truthy(v) == v \notin {"None", "False", ""}

\* The values a user can give a slot of each datatype.
ValuesFor(datatype) ==
    IF datatype = "Boolean" THEN {"None", "False", "True"} ELSE {"None", "a"}

\* -------------------------------------------------------- getParameterInfo
max_stations == 15

\* arcpy.Parameter(...): a new slot has no value and is enabled.
Parameter(kind, i, datatype) ==
    [name |-> << kind, i >>, datatype |-> datatype, value |-> None, enabled |-> TRUE]

HasCheckbox_from2(i) == i >= 2

\* line 131: `if i > 2`
HasCheckbox(i) == i > 2

\* One pass of the loop body, lines 131-158: what station index i appends.
StationBlock(i) ==
    (IF HasCheckbox(i) THEN << Parameter("add_station", i, "Boolean") >> ELSE << >>)
    \o << Parameter("station", i, "Feature Layer"), Parameter("folder", i, "DEFolder") >>

RECURSIVE Blocks(_)
\* for i in range(i, max_stations + 1)
Blocks(i) == IF i > max_stations THEN << >> ELSE StationBlock(i) \o Blocks(i + 1)

getParameterInfo ==
    << Parameter("dem_input", 0, "Raster Layer") >>
    \o Blocks(1)
    \o << Parameter("output_avg_vwc", 0, "DEFolder"), Parameter("output_plot", 0, "DEFile") >>

\* -------------------------------------------------------- updateParameters
start_index == 3
step == 3
update_max_stations == 15

StationRange_from2 == 2 .. update_max_stations

\* line 193: range(3, max_stations + 1)
StationRange == 3 .. update_max_stations

base_index_no_minus1(i) == start_index + i * step

\* line 194
base_index(i) == start_index + (i - 1) * step

checkbox_index_ahead(i) == base_index(i) + 1

\* line 195
checkbox_index(i) == base_index(i) - 3

\* line 196
station_index(i) == base_index(i) - 2

folder_index_at_base(i) == base_index(i)

\* line 197
folder_index(i) == base_index(i) - 1

\* Python list indexing: k is valid when -len <= k < len.
InRange(p, k) == (0 - Len(p)) <= k /\ k < Len(p)

\* The sequence position of Python index k (valid k only).
At(p, k) == IF k < 0 THEN Len(p) + k + 1 ELSE k + 1

\* Lines 199-206 for one station index, the three slots already looked up.
Toggle(p, c, s, f) ==
    IF Truthy(p[c].value)
    THEN LET p1 == [p EXCEPT ![s].enabled = TRUE]
         IN  [p1 EXCEPT ![f].enabled = TRUE]
    ELSE LET p1 == [p EXCEPT ![s].enabled = FALSE]
             p2 == [p1 EXCEPT ![s].value = None]
             p3 == [p2 EXCEPT ![f].enabled = FALSE]
         IN  [p3 EXCEPT ![f].value = None]

RECURSIVE Loop(_, _, _)
\* The for loop of lines 193-206 from station index i on, n iterations done.
\* The three lookups of lines 195-197 come before any assignment, so an
\* IndexError leaves the iteration's slots as they were and keeps what the
\* earlier iterations did.
Loop(p, i, n) ==
    IF i \notin StationRange
    THEN [params |-> p, outcome |-> "returned", iters |-> n]
    ELSE IF ~ (InRange(p, checkbox_index(i)) /\ InRange(p, station_index(i))
               /\ InRange(p, folder_index(i)))
    THEN [params |-> p, outcome |-> "IndexError", iters |-> n]
    ELSE Loop(Toggle(p, At(p, checkbox_index(i)), At(p, station_index(i)),
                     At(p, folder_index(i))),
              i + 1, n + 1)

FirstOf(S) == CHOOSE x \in S : \A y \in S : x <= y

updateParameters(p) == Loop(p, FirstOf(StationRange), 0)

\* ------------------------------------------------------------- the host
Init ==
    /\ params = << >>
    /\ pre = << >>
    /\ phase = "new"
    /\ calls = 0
    /\ outcome = "none"
    /\ iters = 0
    /\ edits = 0

\* The host asks the tool for its parameters.
GetParameterInfo ==
    /\ phase = "new"
    /\ params' = getParameterInfo
    /\ pre' = getParameterInfo
    /\ phase' = "idle"
    /\ UNCHANGED << calls, outcome, iters, edits >>

\* The user (or a script) gives slot k the value v.
UserEdit ==
    /\ phase = "idle"
    /\ edits < MaxEdits
    /\ \E k \in 1 .. Len(params) :
         \E v \in ValuesFor(params[k].datatype) :
            /\ v # params[k].value
            /\ params' = [params EXCEPT ![k].value = v]
    /\ phase' = "changed"
    /\ calls' = 0
    /\ edits' = edits + 1
    /\ UNCHANGED << pre, outcome, iters >>

\* The host runs the callback: after every edit, and again whenever it likes.
UpdateParameters ==
    /\ phase \in {"idle", "changed"}
    /\ calls < MaxCalls
    /\ \E r \in {updateParameters(params)} :
           /\ params' = r.params
           /\ outcome' = r.outcome
           /\ iters' = r.iters
    /\ pre' = params
    /\ phase' = "idle"
    /\ calls' = calls + 1
    /\ UNCHANGED edits

Next == GetParameterInfo \/ UserEdit \/ UpdateParameters

Spec == Init /\ [][Next]_vars

\* ------------------------------------- a list of another shape from the host
\* The built list cut or padded to n slots.
Resize(p, n) ==
    IF n <= Len(p)
    THEN SubSeq(p, 1, n)
    ELSE p \o [k \in 1 .. (n - Len(p)) |-> Parameter("extra", k, "GPString")]

\* The same slots in the opposite order.
Reverse(p) == [k \in 1 .. Len(p) |-> p[Len(p) + 1 - k]]

\* Every Boolean slot holding b and every other slot holding a.
Filled(p, b, a) ==
    [k \in 1 .. Len(p) |->
        [p[k] EXCEPT !.value = IF p[k].datatype = "Boolean" THEN b ELSE a]]

\* The callback is handed a list of any length up to MaxExtra slots more than
\* the built one, in construction order or reversed.
InitShape ==
    /\ \E n \in 0 .. (Len(getParameterInfo) + MaxExtra) :
         \E rev \in BOOLEAN :
           \E b \in ValuesFor("Boolean") :
             \E a \in ValuesFor("DEFolder") :
               LET q == Resize(getParameterInfo, n)
               IN  params = Filled(IF rev THEN Reverse(q) ELSE q, b, a)
    /\ pre = params
    /\ phase = "idle"
    /\ calls = 0
    /\ outcome = "none"
    /\ iters = 0
    /\ edits = 0

NextShape == UpdateParameters

SpecShape == InitShape /\ [][NextShape]_vars

\* ------------------------------------------------------------ the claims
\* The position in p of the slot named kind_i.
Pos(p, kind, i) == CHOOSE k \in 1 .. Len(p) : p[k].name = << kind, i >>

Named(p, kind, i) == p[Pos(p, kind, i)]

\* The names of a list, in order.
Names(p) == [k \in 1 .. Len(p) |-> p[k].name]

\* An updateParameters call has just ended.
AfterCall == calls >= 1

Optional == 3 .. 15

\* C1: after every updateParameters call, for every i in 3..15, station_i.enabled
\* equals folder_i.enabled and both equal the truthiness of add_station_i.value.
C1_EnabledFollowsCheckbox ==
    (AfterCall /\ outcome = "returned") =>
        \A i \in Optional :
            /\ Named(params, "station", i).enabled = Named(params, "folder", i).enabled
            /\ Named(params, "folder", i).enabled
                 = Truthy(Named(params, "add_station", i).value)

\* C2: if add_station_i.value is falsy when updateParameters is called, then after
\* the call station_i and folder_i are disabled and their values are None.
C2_FalsyCheckboxDisablesAndClears ==
    (AfterCall /\ outcome = "returned") =>
        \A i \in Optional :
            ~ Truthy(Named(pre, "add_station", i).value) =>
                /\ Named(params, "station", i).enabled = FALSE
                /\ Named(params, "folder", i).enabled = FALSE
                /\ Named(params, "station", i).value = None
                /\ Named(params, "folder", i).value = None

\* C3: if add_station_i.value is truthy when updateParameters is called, then after
\* the call station_i and folder_i are enabled and hold the values they held
\* before the call.
C3_TruthyCheckboxEnablesAndKeeps ==
    (AfterCall /\ outcome = "returned") =>
        \A i \in Optional :
            Truthy(Named(pre, "add_station", i).value) =>
                /\ Named(params, "station", i).enabled = TRUE
                /\ Named(params, "folder", i).enabled = TRUE
                /\ Named(params, "station", i).value = Named(pre, "station", i).value
                /\ Named(params, "folder", i).value = Named(pre, "folder", i).value

\* C4: updateParameters leaves the value and the enabled flag of dem_input, of
\* every add_station_i, of output_avg_vwc and of output_plot as they were.
C4_OnlyStationAndFolderChange ==
    (AfterCall /\ outcome = "returned") =>
        \A k \in 1 .. Len(params) :
            pre[k].name[1] \in {"dem_input", "add_station", "output_avg_vwc", "output_plot"}
                => params[k] = pre[k]

\* C5: updateParameters never changes the value or the enabled flag of station_1,
\* folder_1, station_2 or folder_2.
C5_FirstTwoStationsUntouched ==
    AfterCall =>
        \A i \in {1, 2} :
            /\ Named(params, "station", i) = Named(pre, "station", i)
            /\ Named(params, "folder", i) = Named(pre, "folder", i)

\* C5 witness: a call that changed the list while station_1 held a value.
C5_Witness ==
    /\ AfterCall
    /\ Named(pre, "station", 1).value = "a"
    /\ params # pre

\* C6: a second updateParameters call with no edit in between leaves every slot as
\* the first call left it.
C6_Idempotent == calls >= 2 => params = pre

\* C6 witness: two calls in a row on a list where the first call had disabled
\* some slot and enabled the folder of a station the user had entered.
C6_Witness ==
    /\ calls = 2
    /\ outcome = "returned"
    /\ \E i \in Optional :
         /\ Truthy(Named(params, "station", i).value)
         /\ Named(params, "folder", i).enabled
    /\ \E k \in 1 .. Len(params) : ~ params[k].enabled

\* The list handed to the call differs from the built layout in length or order.
Mismatch(p) == Names(p) # Names(getParameterInfo)

\* C7 as stated: updateParameters ends in IndexError whenever the length or the
\* order of its list does not match the layout of getParameterInfo.
C7_MismatchRaises == (AfterCall /\ Mismatch(pre)) => outcome = "IndexError"

\* C7 amended: updateParameters ends in IndexError exactly when its list has
\* fewer than 45 slots, whatever the order of the slots.
C7_RaisesIffShorterThan45 ==
    AfterCall => ((outcome = "IndexError") <=> (Len(pre) < 45))

\* C7 witness: a call on a list too short, which failed after some iterations
\* had already changed slots.
C7_Witness ==
    /\ AfterCall
    /\ outcome = "IndexError"
    /\ Len(pre) < 45
    /\ iters > 0
    /\ params # pre

\* C8 as stated: the list of getParameterInfo has 2 + 15*3 + 2 = 49 slots.
C8_Has49Slots == phase # "new" => Len(params) = 2 + 15 * 3 + 2

\* C8 amended: the list of getParameterInfo has 46 slots: dem_input, two slots
\* (station, folder) for each of the station indices 1 and 2, three slots
\* (add_station, station, folder) for each of 3..15, and the two outputs.
C8_Has46Slots ==
    phase # "new" =>
        /\ Len(params) = 46
        /\ Len(params) = 1 + 2 * 2 + 13 * 3 + 2
        /\ \A i \in 1 .. 15 :
              Cardinality({k \in 1 .. Len(params) : params[k].name[2] = i})
                = IF i <= 2 THEN 2 ELSE 3
        /\ {params[k].name : k \in {1, Len(params) - 1, Len(params)}}
              = {<< "dem_input", 0 >>, << "output_avg_vwc", 0 >>, << "output_plot", 0 >>}

\* C8 witness: the list as built, from dem_input to output_plot.
C8_Witness ==
    /\ phase = "idle"
    /\ calls = 0
    /\ edits = 0
    /\ params[1].name = << "dem_input", 0 >>
    /\ params[Len(params)].name = << "output_plot", 0 >>

\* C9: for every i in 3..15 the slot of the built list at base_index-3 is
\* add_station_i, the one at base_index-2 is station_i and the one at
\* base_index-1 is folder_i.
C9_IndicesMirrorConstruction ==
    phase # "new" =>
        \A i \in Optional :
            /\ params[At(params, base_index(i) - 3)].name = << "add_station", i >>
            /\ params[At(params, base_index(i) - 2)].name = << "station", i >>
            /\ params[At(params, base_index(i) - 1)].name = << "folder", i >>

\* C10: on the built list every index updateParameters reads is in bounds, so the
\* call runs all 13 iterations and returns the same sequence, same length and
\* same slot order, without an IndexError.
C10_RunsToCompletion ==
    AfterCall =>
        /\ outcome = "returned"
        /\ iters = 13
        /\ Names(params) = Names(pre)
        /\ \A i \in Optional :
              \A k \in {checkbox_index(i), station_index(i), folder_index(i)} :
                 0 <= k /\ k < Len(pre)

\* C10 witness: a completed call that acted on the slot at the highest index read.
C10_Witness ==
    /\ AfterCall
    /\ iters = 13
    /\ pre[At(pre, folder_index(15))].enabled
    /\ ~ params[At(params, folder_index(15))].enabled

====
